---- MODULE Spec2Model ----
(***************************************************************************)
(* AnalyzeProtein.c: reads PDB files named on the command line, collects   *)
(* the coordinates of their ATOM records and prints, per file, the atom    *)
(* count, the centre of gravity Cg, the radius of gyration Rg and the      *)
(* maximal pairwise distance Dmax.                                         *)
(*                                                                         *)
(* Text is modelled as sequences of one-character strings.  A float is     *)
(* modelled in fixed point, in thousandths (the resolution of the PDB      *)
(* coordinate columns and of the "%.3f" output); the arithmetic of the     *)
(* reducers is exact rational arithmetic on these values.                  *)
(***************************************************************************)
EXTENDS Integers, Sequences, FiniteSets, TLC

\* ------------------------------------------------------------------ bounds
\* files on the command line
MaxFiles == 2
\* physical lines read in one run, over all files
MaxLines == 3

\* ------------------------------------------------- constants of the source
MAX_ATOMS == 20000
MAX_LINE == 80
COORDINATE_LEN == 8
LINE_STARTER == <<"A", "T", "O", "M", " ", " ">>
LINE_STARTER_LEN == 6
MIN_LINE_LEN == 60
MIN_ARGS == 2
EXIT_FAILURE == 1
\* the terminating byte of a C string, met when reading past its length
END_OF_STRING == "\\0"

\* --------------------------------------------------------- C string helpers
CharAt(s, k) == IF k \in 1..Len(s) THEN s[k] ELSE END_OF_STRING

strlen(s) == Len(s)

\* memcpy(dst, src + off, n) followed by dst[n] = END_OF_STRING
memcpy(s, off, n) == [k \in 1..n |-> CharAt(s, off + k)]

RECURSIVE strncmpFrom(_, _, _, _)
strncmpFrom(a, b, k, n) ==
    IF k > n THEN 0
    ELSE IF CharAt(a, k) # CharAt(b, k) THEN 1
    ELSE IF CharAt(a, k) = END_OF_STRING THEN 0
    ELSE strncmpFrom(a, b, k + 1, n)

\* 0 when the first n characters agree, non-zero otherwise
strncmp(a, b, n) == strncmpFrom(a, b, 1, n)

startsWith(line) == strncmp(line, LINE_STARTER, LINE_STARTER_LEN) = 0

\* ------------------------------------------------------------------ strtof
DigitChars == <<"0", "1", "2", "3", "4", "5", "6", "7", "8", "9">>
IsDigit(c) == \E k \in 1..10 : DigitChars[k] = c
DigitVal(c) == (CHOOSE k \in 1..10 : DigitChars[k] = c) - 1
IsSpace(c) == c \in {" ", "\n", "\t", "\r"}

RECURSIVE Pow10(_)
Pow10(n) == IF n <= 0 THEN 1 ELSE 10 * Pow10(n - 1)

RECURSIVE SkipSpace(_, _)
SkipSpace(s, k) == IF IsSpace(CharAt(s, k)) THEN SkipSpace(s, k + 1) ELSE k

\* the index after the run of digits that starts at k
RECURSIVE ScanDigits(_, _)
ScanDigits(s, k) == IF IsDigit(CharAt(s, k)) THEN ScanDigits(s, k + 1) ELSE k

\* the number written by the digits s[a] .. s[b-1]
RECURSIVE DigitsValue(_, _, _)
DigitsValue(s, a, b) ==
    IF b <= a THEN 0 ELSE 10 * DigitsValue(s, a, b - 1) + DigitVal(s[b - 1])

RECURSIVE NumDigits(_)
NumDigits(m) == IF m = 0 THEN 0 ELSE 1 + NumDigits(m \div 10)

\* m * 10^e in thousandths, rounded to the nearest
Milli(m, e) ==
    IF e + 3 >= 0 THEN m * Pow10(e + 3)
    ELSE (2 * m + Pow10(-(e + 3))) \div (2 * Pow10(-(e + 3)))

\* strtof(input, &end) on decimal text: white space, sign, digits with an
\* optional point, optional exponent.  consumed = end - input; erange is
\* errno == ERANGE; zero is result == 0; val is the result in thousandths.
\* A value below the smallest subnormal float (about 1.4e-45) converts to
\* zero, a value above FLT_MAX (about 3.4e38) to HUGE_VALF, both with ERANGE.
\* The result for the mantissa digits mant, scaled by 10^exp10, read up to pend:
StrtofResult(neg, mant, exp10, pend) ==
    LET top == NumDigits(mant) + exp10
        underflow == mant # 0 /\ top < -45
        overflow == mant # 0 /\ top > 39
        mag == IF underflow THEN 0
               ELSE IF overflow THEN Pow10(9)
               ELSE Milli(mant, exp10)
    IN  [val |-> IF neg THEN -mag ELSE mag,
         zero |-> (mant = 0 \/ underflow),
         consumed |-> pend - 1,
         erange |-> (underflow \/ overflow)]

\* the exponent: q1 is behind the "e" and its sign, its digits end before q2
StrtofExponent(s, neg, mant, nFrac, p3, q1, q2) ==
    IF CharAt(s, p3) \in {"e", "E"} /\ q2 > q1
    THEN StrtofResult(neg, mant,
                      (IF CharAt(s, p3 + 1) = "-" THEN -DigitsValue(s, q1, q2)
                       ELSE DigitsValue(s, q1, q2)) - nFrac,
                      q2)
    ELSE StrtofResult(neg, mant, -nFrac, p3)

\* the mantissa: the integer digits are s[p1] .. s[p2-1], the digits behind
\* the point, if there is one, end before p3
StrtofMantissa(s, neg, p1, p2, p3) ==
    LET hasDot == CharAt(s, p2) = "."
        nFrac == IF hasDot THEN p3 - (p2 + 1) ELSE 0
        q1 == IF CharAt(s, p3 + 1) \in {"+", "-"} THEN p3 + 2 ELSE p3 + 1
    IN  IF (p2 - p1) + nFrac = 0
        THEN [val |-> 0, zero |-> TRUE, consumed |-> 0, erange |-> FALSE]
        ELSE StrtofExponent(s, neg,
                 DigitsValue(s, p1, p2) * Pow10(nFrac)
                     + (IF hasDot THEN DigitsValue(s, p2 + 1, p3) ELSE 0),
                 nFrac, p3, q1, ScanDigits(s, q1))

StrtofDigits(s, neg, p1, p2) ==
    StrtofMantissa(s, neg, p1, p2,
                   IF CharAt(s, p2) = "." THEN ScanDigits(s, p2 + 1) ELSE p2)

StrtofSign(s, p0) ==
    StrtofDigits(s, CharAt(s, p0) = "-",
                 IF CharAt(s, p0) \in {"+", "-"} THEN p0 + 1 ELSE p0,
                 ScanDigits(s, IF CharAt(s, p0) \in {"+", "-"} THEN p0 + 1 ELSE p0))

Strtof(s) == StrtofSign(s, SkipSpace(s, 1))

\* a test that takes every zero for a failure: result == 0
ConversionFailedZero(r) == r.zero

\* the test of getFloat: result == 0 && (errno != 0 || end == input)
ConversionFailed(r) == r.zero /\ (r.erange \/ r.consumed = 0)

\* the float returned by getFloat when the conversion is accepted
getFloat(input) == Strtof(input).val

\* --------------------------------------------------------- the atom store
\* float fileAtoms[MAX_ATOMS][COORDINATES] = {{0}}: the function holds the
\* entries that differ from zero, every other entry of the array is zero.
COORDINATES == 3
ZeroAtom == <<0, 0, 0>>
AtomAt(fa, k) == IF k \in DOMAIN fa THEN fa[k] ELSE ZeroAtom

\* fileAtoms[n][c] = v
StoreCoord(fa, n, c, v) ==
    LET t == [AtomAt(fa, n) EXCEPT ![c] = v]
        dom == IF t = ZeroAtom THEN DOMAIN fa \ {n} ELSE DOMAIN fa \cup {n}
    IN  [k \in dom |-> IF k = n THEN t ELSE fa[k]]

\* parseLine: the three fields are cut out of the line; each is converted
\* and stored in turn, and the first failed conversion ends the program.
\* done is the number of coordinates stored.
RECURSIVE ParseFrom(_, _, _, _)
ParseFrom(line, n, fa, c) ==
    IF c > COORDINATES THEN [fa |-> fa, done |-> COORDINATES]
    ELSE LET input == memcpy(line, 30 + (c - 1) * COORDINATE_LEN, COORDINATE_LEN)
         IN  IF ConversionFailed(Strtof(input))
             THEN [fa |-> fa, done |-> c - 1]
             ELSE ParseFrom(line, n, StoreCoord(fa, n, c, getFloat(input)), c + 1)

parseLine(line, n, fa) == ParseFrom(line, n, fa, 1)

\* --------------------------------------------------------------- numbers
\* A float that results from a division is kept as a fraction num/den; a
\* point is a triple of numerators c over one denominator d.
Point(atom) == [c |-> atom, d |-> 1]

\* the result of a division by zero (0.0 / 0 is not a number)
NaN == 0 - 999999999

\* floor of the square root
RECURSIVE ISqrtIn(_, _, _)
ISqrtIn(v, lo, hi) ==
    IF lo >= hi THEN lo
    ELSE LET mid == (lo + hi + 1) \div 2
         IN  IF mid * mid <= v THEN ISqrtIn(v, mid, hi) ELSE ISqrtIn(v, lo, mid - 1)

ISqrt(v) == ISqrtIn(v, 0, 46340)

\* num/den to the nearest integer, as "%.3f" rounds a value held in thousandths
RoundDiv(num, den) ==
    IF den = 0 THEN NaN ELSE (2 * num + den) \div (2 * den)

\* sqrt(num/den) to the nearest integer
sqrt(num, den) ==
    IF den = 0 THEN NaN ELSE (ISqrt((4 * num) \div den) + 1) \div 2

\* calDistance: the squared distance of two points, as a fraction
calDistance(p, q) ==
    LET dif(k) == p.c[k] * q.d - q.c[k] * p.d
    IN  [num |-> dif(1) * dif(1) + dif(2) * dif(2) + dif(3) * dif(3),
         den |-> (p.d * q.d) * (p.d * q.d)]

\* a += b on fractions
FracAdd(a, b) ==
    IF a.num = 0 THEN b
    ELSE IF a.den = b.den THEN [num |-> a.num + b.num, den |-> a.den]
    ELSE [num |-> a.num * b.den + b.num * a.den, den |-> a.den * b.den]

\* ---------------------------------------------------------- the reducers
\* an assignment in place of the sum: xCorSum = fileAtoms[i][0]
AccumulateAssign(sum, v) == v

\* xCorSum += fileAtoms[i][0]
Accumulate(sum, v) == sum + v

RECURSIVE CgLoop(_, _, _, _)
CgLoop(n, fa, k, sums) ==
    IF k >= n THEN sums
    ELSE CgLoop(n, fa, k + 1,
                [c \in 1..COORDINATES |-> Accumulate(sums[c], AtomAt(fa, k)[c])])

\* calCenterOfGravity: the value left in gravityCenter
calCenterOfGravity(n, fa) == [c |-> CgLoop(n, fa, 0, ZeroAtom), d |-> n]

\* the three numbers of the "Cg = ..." line
PrintCg(gc) == [c \in 1..COORDINATES |-> RoundDiv(gc.c[c], gc.d)]

RECURSIVE RgLoop(_, _, _, _, _)
RgLoop(n, fa, gc, k, rotationSum) ==
    IF k >= n THEN rotationSum
    ELSE RgLoop(n, fa, gc, k + 1,
                FracAdd(rotationSum, calDistance(gc, Point(AtomAt(fa, k)))))

\* calRotationRadious: the number of the "Rg = ..." line
calRotationRadious(n, fa, gc) ==
    LET rotationSum == RgLoop(n, fa, gc, 0, [num |-> 0, den |-> 1])
    IN  sqrt(rotationSum.num, rotationSum.den * n)

\* an outer loop that stops one atom early: i < atomCounter - 2
OuterLimitEarly(n) == n - 2

\* the bound of the outer loop: i < atomCounter - 1
OuterLimit(n) == n - 1

RECURSIVE DmaxInner(_, _, _, _, _)
DmaxInner(n, fa, p, j, maxDistance) ==
    IF j >= n THEN maxDistance
    ELSE LET d2 == calDistance(p, Point(AtomAt(fa, j)))
             tempDistance == sqrt(d2.num, d2.den)
         IN  DmaxInner(n, fa, p, j + 1,
                       IF maxDistance < tempDistance THEN tempDistance
                       ELSE maxDistance)

RECURSIVE DmaxOuter(_, _, _, _)
DmaxOuter(n, fa, k, maxDistance) ==
    IF k >= OuterLimit(n) THEN maxDistance
    ELSE DmaxOuter(n, fa, k + 1,
                   DmaxInner(n, fa, Point(AtomAt(fa, k)), 1, maxDistance))

\* calMaxDistance: the number of the "Dmax = ..." line
calMaxDistance(n, fa) == DmaxOuter(n, fa, 0, 0)

\* ------------------------------------------------------- the input lines
\* columns that hold no coordinate
Fill(n) == [k \in 1..n |-> "#"]

\* a record: its tag in columns 1-6, the coordinate fields in columns 31-38,
\* 39-46 and 47-54, then tail more columns and the newline
Record(tag, x, y, z, tail) ==
    tag \o Fill(24) \o x \o y \o z \o Fill(tail) \o <<"\n">>

TagATOM == <<"A", "T", "O", "M", " ", " ">>
TagHETATM == <<"H", "E", "T", "A", "T", "M">>

F_0 == <<" ", " ", " ", "0", ".", "0", "0", "0">>
F_2 == <<" ", " ", " ", "2", ".", "0", "0", "0">>
F_m1 == <<" ", " ", "-", "1", ".", "0", "0", "0">>
F_1p5junk == <<" ", " ", "1", ".", "5", "a", "b", "c">>
F_2exp == <<" ", " ", " ", " ", "+", "2", "e", "0">>
F_blank == <<" ", " ", " ", " ", " ", " ", " ", " ">>
F_abc == <<" ", " ", " ", " ", " ", "a", "b", "c">>
F_tiny == <<" ", " ", " ", "1", "e", "-", "9", "9">>

\* ATOM lines the read loop accepts (61 characters and more with the newline)
LineOrigin == Record(TagATOM, F_0, F_0, F_0, 6)
LineX2 == Record(TagATOM, F_2, F_0, F_0, 6)
LineMixed == Record(TagATOM, F_m1, F_1p5junk, F_2exp, 24)
\* ATOM lines with a field that is no number
LineBlankX == Record(TagATOM, F_blank, F_0, F_0, 6)
LineAbcY == Record(TagATOM, F_2, F_abc, F_0, 6)
LineTinyZ == Record(TagATOM, F_2, F_0, F_tiny, 6)
\* ATOM lines of 60 and of 7 characters with the newline
LineSixty == Record(TagATOM, F_2, F_0, F_0, 5)
LineSeven == TagATOM \o <<"\n">>
\* lines of other records
LineHetatm == Record(TagHETATM, F_2, F_0, F_0, 6)
LineEnd == <<"E", "N", "D", "\n">>
\* one line of 140 characters: 79 columns of another record, then the text of
\* an ATOM record
LineLong == Fill(MAX_LINE - 1) \o LineX2

RawLines ==
    {LineOrigin, LineX2, LineMixed, LineBlankX, LineAbcY, LineTinyZ,
     LineSixty, LineSeven, LineHetatm, LineEnd, LineLong}

\* fgets(fileLine, MAX_LINE, fp) on a stream whose unread text is s: the
\* characters up to and including the first newline, MAX_LINE - 1 at most
RECURSIVE FgetsLen(_, _)
FgetsLen(s, k) ==
    IF k >= Len(s) \/ k >= MAX_LINE - 1 THEN k
    ELSE IF k >= 1 /\ s[k] = "\n" THEN k
    ELSE FgetsLen(s, k + 1)

Fgets(s) == SubSeq(s, 1, FgetsLen(s, 0))
Unread(s) == SubSeq(s, FgetsLen(s, 0) + 1, Len(s))

\* ------------------------------------------------------------------ state
VARIABLES
    argc,           \* number of command line words, the program name included
    i,              \* index of the file being processed
    pc,             \* position in main
    handles,        \* per opened file: "open" until fclose, then "closed"
    pending,        \* unread rest of the physical line fgets stopped in
    nread,          \* physical lines read so far in the run
    atEof,          \* feof(fp) != 0
    fileLine,       \* the line buffer
    atomCounter,
    fileAtoms,
    gravityCenter,
    out,            \* the result lines printed so far
    err,            \* the error message printed, "none" if none
    status,         \* exit status, -1 while running
    fileHist,       \* physical lines read from the current file
    prefixLen,      \* lines of the current file read by ReadZeroRun
    writeIdx        \* first index of the last store of parseLine, -1 if none

vars == <<argc, i, pc, handles, pending, nread, atEof, fileLine, atomCounter,
          fileAtoms, gravityCenter, out, err, status, fileHist, prefixLen,
          writeIdx>>

\* values an uninitialised local of main may hold
Indeterminate == {0, 7}

Init ==
    /\ argc \in 1..(MaxFiles + 1)
    /\ i = 1
    /\ pc = "main"
    /\ handles = <<>>
    /\ pending = <<>>
    /\ nread = 0
    /\ atEof = FALSE
    /\ fileLine = <<>>
    /\ atomCounter \in Indeterminate
    /\ fileAtoms = <<>>
    /\ gravityCenter \in {[c |-> <<g, g, g>>, d |-> 1] : g \in Indeterminate}
    /\ out = <<>>
    /\ err = "none"
    /\ status = -1
    /\ fileHist = <<>>
    /\ prefixLen = 0
    /\ writeIdx = -1

\* ---------------------------------------------------------------- main
\* printf of an error message and return 1 / exit(EXIT_FAILURE)
Fail(msg, next) ==
    /\ err' = msg
    /\ status' = EXIT_FAILURE
    /\ pc' = next

\* if (argc < MIN_ARGS) { usage; return 1; }
Usage ==
    /\ pc = "main"
    /\ argc < MIN_ARGS
    /\ Fail("usage", "failed")
    /\ UNCHANGED <<argc, i, handles, pending, nread, atEof, fileLine,
                   atomCounter, fileAtoms, gravityCenter, out, fileHist,
                   prefixLen, writeIdx>>

EnterLoop ==
    /\ pc = "main"
    /\ ~(argc < MIN_ARGS)
    /\ pc' = "loop"
    /\ UNCHANGED <<argc, i, handles, pending, nread, atEof, fileLine,
                   atomCounter, fileAtoms, gravityCenter, out, err, status,
                   fileHist, prefixLen, writeIdx>>

\* a counter that is not reset for the next file
ResetCounterKept(n) == n

\* atomCounter = 0 at the head of the loop body
ResetCounter(n) == 0

\* fopen returns NULL
OpenFail ==
    /\ pc = "loop"
    /\ i < argc
    /\ atomCounter' = ResetCounter(atomCounter)
    /\ Fail("open", "failed")
    /\ UNCHANGED <<argc, i, handles, pending, nread, atEof, fileLine,
                   fileAtoms, gravityCenter, out, fileHist, prefixLen,
                   writeIdx>>

OpenOk ==
    /\ pc = "loop"
    /\ i < argc
    /\ atomCounter' = ResetCounter(atomCounter)
    /\ handles' = [k \in DOMAIN handles \cup {i} |->
                      IF k = i THEN "open" ELSE handles[k]]
    /\ pending' = <<>>
    /\ atEof' = FALSE
    /\ fileHist' = <<>>
    /\ prefixLen' = 0
    /\ pc' = "read"
    /\ UNCHANGED <<argc, i, nread, fileLine, fileAtoms, gravityCenter, out,
                   err, status, writeIdx>>

\* the for loop ends: return 0
Return0 ==
    /\ pc = "loop"
    /\ ~(i < argc)
    /\ status' = 0
    /\ pc' = "done"
    /\ UNCHANGED <<argc, i, handles, pending, nread, atEof, fileLine,
                   atomCounter, fileAtoms, gravityCenter, out, err, fileHist,
                   prefixLen, writeIdx>>

\* ------------------------------------------------------- the read loop
\* what the next fgets can return text from: the rest of a line it stopped
\* in, or else any next line of the file
Sources ==
    IF pending # <<>> THEN {pending}
    ELSE IF nread < MaxLines THEN RawLines
    ELSE {}

\* fgets returned a line taken from src
TakeLine(src) ==
    /\ fileLine' = Fgets(src)
    /\ pending' = Unread(src)
    /\ nread' = IF pending = <<>> THEN nread + 1 ELSE nread
    /\ fileHist' = IF pending = <<>> THEN Append(fileHist, src) ELSE fileHist

\* the line does not start with LINE_STARTER: nothing is done with it
FgetsIgnore ==
    /\ pc = "read"
    /\ \E src \in Sources :
        /\ ~startsWith(Fgets(src))
        /\ TakeLine(src)
    /\ UNCHANGED <<argc, i, pc, handles, atEof, atomCounter, fileAtoms,
                   gravityCenter, out, err, status, prefixLen, writeIdx>>

\* if (strlen(fileLine) > MIN_LINE_LEN)
LongEnough(line) == strlen(line) > MIN_LINE_LEN

\* a short line that is skipped after its message: continue
ShortLineSkipped == "read"

\* where the short line branch leaves main: exit(EXIT_FAILURE)
ShortLineExit == "failed"

FgetsShort ==
    /\ pc = "read"
    /\ \E src \in Sources :
        /\ startsWith(Fgets(src))
        /\ ~LongEnough(Fgets(src))
        /\ TakeLine(src)
    /\ Fail("short", ShortLineExit)
    /\ UNCHANGED <<argc, i, handles, atEof, atomCounter, fileAtoms,
                   gravityCenter, out, prefixLen, writeIdx>>

\* parseLine stores the atom, atomCounter++
FgetsAtom ==
    /\ pc = "read"
    /\ atomCounter < MAX_ATOMS
    /\ \E src \in Sources :
        LET r == parseLine(Fgets(src), atomCounter, fileAtoms)
        IN  /\ startsWith(Fgets(src))
            /\ LongEnough(Fgets(src))
            /\ r.done = COORDINATES
            /\ TakeLine(src)
            /\ fileAtoms' = r.fa
    /\ writeIdx' = atomCounter
    /\ atomCounter' = atomCounter + 1
    /\ UNCHANGED <<argc, i, pc, handles, atEof, gravityCenter, out, err,
                   status, prefixLen>>

\* getFloat meets a field that does not convert: exit(EXIT_FAILURE), after
\* the coordinates before it were stored
FgetsBadCoord ==
    /\ pc = "read"
    /\ \E src \in Sources :
        LET r == parseLine(Fgets(src), atomCounter, fileAtoms)
        IN  /\ startsWith(Fgets(src))
            /\ LongEnough(Fgets(src))
            /\ r.done < COORDINATES
            /\ atomCounter < MAX_ATOMS \/ r.done = 0
            /\ TakeLine(src)
            /\ fileAtoms' = IF atomCounter < MAX_ATOMS THEN r.fa ELSE fileAtoms
            /\ writeIdx' = IF r.done > 0 THEN atomCounter ELSE writeIdx
    /\ Fail("coord", "failed")
    /\ UNCHANGED <<argc, i, handles, atEof, atomCounter, gravityCenter, out,
                   prefixLen>>

\* fgets returns NULL at the end of the file
FgetsEof ==
    /\ pc = "read"
    /\ pending = <<>>
    /\ prefixLen = 0
    /\ atEof' = TRUE
    /\ pc' = "check"
    /\ UNCHANGED <<argc, i, handles, pending, nread, fileLine, atomCounter,
                   fileAtoms, gravityCenter, out, err, status, fileHist,
                   prefixLen, writeIdx>>

\* fgets returns NULL because the read failed
FgetsError ==
    /\ pc = "read"
    /\ prefixLen = 0
    /\ pc' = "check"
    /\ UNCHANGED <<argc, i, handles, pending, nread, atEof, fileLine,
                   atomCounter, fileAtoms, gravityCenter, out, err, status,
                   fileHist, prefixLen, writeIdx>>

\* the two tests joined by &&: feof(fp) == 0 && atomCounter == 0
ReadFailedBoth(eof, n) == ~eof /\ n = 0

\* if (feof(fp) == 0 || atomCounter == 0)
ReadFailed(eof, n) == ~eof \/ n = 0

CheckFail ==
    /\ pc = "check"
    /\ ReadFailed(atEof, atomCounter)
    /\ Fail("empty", "failed")
    /\ UNCHANGED <<argc, i, handles, pending, nread, atEof, fileLine,
                   atomCounter, fileAtoms, gravityCenter, out, fileHist,
                   prefixLen, writeIdx>>

Printed(kind, val) == [file |-> i, line |-> kind, val |-> val]

\* fclose(fp) and the "atoms were read" line
CloseAndPrint ==
    /\ pc = "check"
    /\ ~ReadFailed(atEof, atomCounter)
    /\ handles' = [handles EXCEPT ![i] = "closed"]
    /\ out' = Append(out, Printed("atoms", <<atomCounter>>))
    /\ pc' = "cg"
    /\ UNCHANGED <<argc, i, pending, nread, atEof, fileLine, atomCounter,
                   fileAtoms, gravityCenter, err, status, fileHist, prefixLen,
                   writeIdx>>

CalCenterOfGravity ==
    /\ pc = "cg"
    /\ gravityCenter' = calCenterOfGravity(atomCounter, fileAtoms)
    /\ out' = Append(out, Printed("Cg", PrintCg(gravityCenter')))
    /\ pc' = "rg"
    /\ UNCHANGED <<argc, i, handles, pending, nread, atEof, fileLine,
                   atomCounter, fileAtoms, err, status, fileHist, prefixLen,
                   writeIdx>>

CalRotationRadious ==
    /\ pc = "rg"
    /\ out' = Append(out, Printed("Rg",
                 <<calRotationRadious(atomCounter, fileAtoms, gravityCenter)>>))
    /\ pc' = "dmax"
    /\ UNCHANGED <<argc, i, handles, pending, nread, atEof, fileLine,
                   atomCounter, fileAtoms, gravityCenter, err, status,
                   fileHist, prefixLen, writeIdx>>

\* the last call of the loop body, then i++
CalMaxDistance ==
    /\ pc = "dmax"
    /\ out' = Append(out, Printed("Dmax",
                 <<calMaxDistance(atomCounter, fileAtoms)>>))
    /\ i' = i + 1
    /\ pc' = "loop"
    /\ UNCHANGED <<argc, handles, pending, nread, atEof, fileLine,
                   atomCounter, fileAtoms, gravityCenter, err, status,
                   fileHist, prefixLen, writeIdx>>

Next ==
    \/ Usage
    \/ EnterLoop
    \/ OpenFail
    \/ OpenOk
    \/ Return0
    \/ FgetsIgnore
    \/ FgetsShort
    \/ FgetsAtom
    \/ FgetsBadCoord
    \/ FgetsEof
    \/ FgetsError
    \/ CheckFail
    \/ CloseAndPrint
    \/ CalCenterOfGravity
    \/ CalRotationRadious
    \/ CalMaxDistance

Spec == Init /\ [][Next]_vars

\* ------------------------------------------- files of MAX_ATOMS lines and more
\* The first MAX_ATOMS - 1 iterations of the read loop on a file that starts
\* with that many copies of LineOrigin, taken in one step: each iteration is
\* FgetsAtom on LineOrigin and stores a zero atom at the next index.  Such a
\* file is followed while it is read (FgetsEof and FgetsError leave it alone):
\* the reducers would iterate over all of its atoms.
RunLen == MAX_ATOMS - 1

ReadZeroRun ==
    /\ pc = "read"
    /\ pending = <<>>
    /\ fileHist = <<>>
    /\ prefixLen = 0
    /\ atomCounter = 0
    /\ fileLine' = Fgets(LineOrigin)
    /\ fileAtoms' = [k \in {d \in DOMAIN fileAtoms : d >= RunLen} |-> fileAtoms[k]]
    /\ atomCounter' = RunLen
    /\ prefixLen' = RunLen
    /\ writeIdx' = RunLen - 1
    /\ UNCHANGED <<argc, i, pc, handles, pending, nread, atEof, gravityCenter,
                   out, err, status, fileHist>>

\* parseLine is called with atomCounter >= MAX_ATOMS: fileAtoms[atomCounter]
\* lies behind the array and the stores have undefined behaviour.  The
\* process is killed, or the stores hit memory that main does not read and
\* the loop goes on, or they hit atomCounter itself; a later field that does
\* not convert still ends the program in getFloat.
Clobbered == {0}

\* the coordinates that parseLine converts, and stores, of the line got
\* from src; 0 as well when the line is not handed to parseLine
OverflowDone(src) ==
    IF startsWith(Fgets(src)) /\ LongEnough(Fgets(src))
    THEN parseLine(Fgets(src), atomCounter, fileAtoms).done
    ELSE 0

OverflowKilled ==
    /\ pc = "read"
    /\ atomCounter >= MAX_ATOMS
    /\ \E src \in Sources :
        /\ OverflowDone(src) > 0
        /\ TakeLine(src)
    /\ status' = 139
    /\ pc' = "killed"
    /\ writeIdx' = atomCounter
    /\ UNCHANGED <<argc, i, handles, atEof, atomCounter, fileAtoms,
                   gravityCenter, out, err, prefixLen>>

OverflowGoesOn ==
    /\ pc = "read"
    /\ atomCounter >= MAX_ATOMS
    /\ \E src \in Sources :
        /\ OverflowDone(src) = COORDINATES
        /\ TakeLine(src)
    /\ atomCounter' \in {atomCounter + 1} \cup {c + 1 : c \in Clobbered}
    /\ writeIdx' = atomCounter
    /\ UNCHANGED <<argc, i, pc, handles, atEof, fileAtoms, gravityCenter,
                   out, err, status, prefixLen>>

OverflowBadCoord ==
    /\ pc = "read"
    /\ atomCounter >= MAX_ATOMS
    /\ \E src \in Sources :
        /\ OverflowDone(src) \in 1..(COORDINATES - 1)
        /\ TakeLine(src)
    /\ Fail("coord", "failed")
    /\ writeIdx' = atomCounter
    /\ UNCHANGED <<argc, i, handles, atEof, atomCounter, fileAtoms,
                   gravityCenter, out, prefixLen>>

NextCap ==
    \/ Next
    \/ ReadZeroRun
    \/ OverflowKilled
    \/ OverflowGoesOn
    \/ OverflowBadCoord

SpecCap == Init /\ [][NextCap]_vars

\* ===================================================================
\* Properties
\* ===================================================================
\* the file whose four result lines were printed last is complete
FileDone == pc = "loop" /\ i > 1

\* the value of the result line `kind` of the file f
ResultOf(f, kind) ==
    LET k == CHOOSE k \in DOMAIN out : out[k].file = f /\ out[k].line = kind
    IN  out[k].val

HasResult(f, kind) == \E k \in DOMAIN out : out[k].file = f /\ out[k].line = kind

\* the Euclidean distance of two atoms of the store
Euclid(a, b) ==
    sqrt((a[1] - b[1]) * (a[1] - b[1]) + (a[2] - b[2]) * (a[2] - b[2])
             + (a[3] - b[3]) * (a[3] - b[3]), 1)

PairDistances(n, fa) ==
    {Euclid(AtomAt(fa, ab[1]), AtomAt(fa, ab[2])) :
        ab \in {p \in (0..(n - 1)) \X (0..(n - 1)) : p[1] # p[2]}}

\* C1: the Dmax printed for a file of n >= 2 atoms is the largest Euclidean
\* distance over all pairs of different atoms of the store; for a file of one
\* atom it is 0.
C1_DmaxIsMaxPairDistance ==
    FileDone =>
        /\ atomCounter >= 2 =>
              /\ ResultOf(i - 1, "Dmax")[1] \in PairDistances(atomCounter, fileAtoms)
              /\ \A d \in PairDistances(atomCounter, fileAtoms) :
                    d <= ResultOf(i - 1, "Dmax")[1]
        /\ atomCounter = 1 => ResultOf(i - 1, "Dmax") = <<0>>

\* three different atoms, the farthest two of them not at index 0
C1_Witness ==
    /\ FileDone
    /\ atomCounter = 3
    /\ AtomAt(fileAtoms, 0) = ZeroAtom
    /\ AtomAt(fileAtoms, 1) # AtomAt(fileAtoms, 2)
    /\ ResultOf(i - 1, "Dmax") = <<3905>>

\* C2: a line that starts with the marker ends the program with the short
\* line error if and only if its length is below 60, and is parsed if and
\* only if its length is at least 60.
C2_SixtyCharactersAreEnough ==
    startsWith(fileLine) =>
        /\ err = "short" <=> strlen(fileLine) < MIN_LINE_LEN
        /\ (strlen(fileLine) >= MIN_LINE_LEN /\ err = "none") =>
              /\ writeIdx >= 0
              /\ AtomAt(fileAtoms, writeIdx)
                    = [c \in 1..COORDINATES |->
                          getFloat(memcpy(fileLine, 30 + (c - 1) * COORDINATE_LEN,
                                          COORDINATE_LEN))]

\* C3: every error ends the run: non-zero exit status, no result line of the
\* file in which it occurred, four result lines for each file before it, no
\* later file opened, and nothing happens after it.
C3_ErrorsAreFatal ==
    /\ [](err # "none" =>
            /\ pc = "failed"
            /\ status # 0
            /\ \A k \in DOMAIN out : out[k].file < i
            /\ \A f \in 1..(i - 1) :
                  \A kind \in {"atoms", "Cg", "Rg", "Dmax"} : HasResult(f, kind)
            /\ Len(out) = 4 * (i - 1)
            /\ DOMAIN handles \subseteq 1..i)
    /\ [][err = "none"]_vars

\* a conversion error in the second file, after the results of the first
C3_Witness ==
    /\ err = "coord"
    /\ i = 2
    /\ Len(out) = 4
    /\ status = EXIT_FAILURE

\* C4: when the program leaves main or calls exit, every file it opened has
\* been closed with fclose.
C4_HandlesReleasedAtExit ==
    pc \in {"done", "failed", "killed"} =>
        \A f \in DOMAIN handles : handles[f] = "closed"

\* C5: parseLine stores at an index in 0..MAX_ATOMS-1 only, and the atom
\* count of a file never exceeds MAX_ATOMS.
C5_StoreIsCapped ==
    /\ writeIdx \in -1..(MAX_ATOMS - 1)
    /\ pc \in {"read", "check", "cg", "rg", "dmax"} => atomCounter <= MAX_ATOMS

\* the lines of the current file that start with the marker
HasMarker(line) == Len(line) >= LINE_STARTER_LEN /\ SubSeq(line, 1, LINE_STARTER_LEN) = LINE_STARTER
MarkedLines == {k \in DOMAIN fileHist : HasMarker(fileHist[k])}

\* C6: lines that do not start with the marker add nothing: the atom count
\* printed for a file is the number of its lines that start with the marker.
C6_OnlyMarkedLinesCount ==
    pc = "cg" => ResultOf(i, "atoms")[1] = prefixLen + Cardinality(MarkedLines)

\* the fields of the line in the buffer
FieldOf(c) == memcpy(fileLine, 30 + (c - 1) * COORDINATE_LEN, COORDINATE_LEN)

\* the fields that hold no number, the fields that convert to zero with a
\* range error, and the value in thousandths of every other field
NoNumber == {F_blank, F_abc}
ZeroWithError == {F_tiny}
FieldValue(f) ==
    CASE f = F_0 -> 0
      [] f = F_2 -> 2000
      [] f = F_m1 -> -1000
      [] f = F_1p5junk -> 1500
      [] f = F_2exp -> 2000

\* C7: getFloat ends the program exactly for a field without a number and for
\* a field that converts to zero with an error; every other field, "   0.000"
\* among them, is stored with its value; after a failure the file has no
\* result line.
C7_GetFloatFailsExactly ==
    (startsWith(fileLine) /\ LongEnough(fileLine)) =>
        /\ err = "coord" <=>
              \E c \in 1..COORDINATES : FieldOf(c) \in NoNumber \cup ZeroWithError
        /\ err # "coord" =>
              AtomAt(fileAtoms, writeIdx)
                  = [c \in 1..COORDINATES |-> FieldValue(FieldOf(c))]
        /\ err = "coord" => \A k \in DOMAIN out : out[k].file # i

\* a line of three fields "   0.000" was stored and the loop goes on
C7_Witness ==
    /\ pc = "read"
    /\ fileLine = Fgets(LineOrigin)
    /\ atomCounter = 2
    /\ writeIdx = 1
    /\ err = "none"

\* the store with its first n atoms rearranged by the permutation q
Permuted(n, fa, q) == [k \in 0..(n - 1) |-> AtomAt(fa, q[k])]

\* C8: the centre of gravity, Rg and Dmax printed for a file are those of
\* every rearrangement of its atoms.
C8_PermutationInvariance ==
    FileDone =>
        \A q \in Permutations(0..(atomCounter - 1)) :
            /\ calCenterOfGravity(atomCounter, Permuted(atomCounter, fileAtoms, q))
                  = gravityCenter
            /\ PrintCg(calCenterOfGravity(atomCounter,
                           Permuted(atomCounter, fileAtoms, q)))
                  = ResultOf(i - 1, "Cg")
            /\ calRotationRadious(atomCounter, Permuted(atomCounter, fileAtoms, q),
                   calCenterOfGravity(atomCounter, Permuted(atomCounter, fileAtoms, q)))
                  = ResultOf(i - 1, "Rg")[1]
            /\ calMaxDistance(atomCounter, Permuted(atomCounter, fileAtoms, q))
                  = ResultOf(i - 1, "Dmax")[1]

\* three different atoms
C8_Witness ==
    /\ FileDone
    /\ atomCounter = 3
    /\ Cardinality({AtomAt(fileAtoms, k) : k \in 0..2}) = 3

\* C9: a reducer runs only after the read loop ended at the end of the file
\* with one atom or more, calRotationRadious only with the gravity centre of
\* this file, and no atom is stored until the three have run.
C9_ReducersOnCompleteStore ==
    /\ [](pc \in {"cg", "rg", "dmax"} =>
            /\ atEof
            /\ pending = <<>>
            /\ atomCounter >= 1
            /\ handles[i] = "closed"
            /\ pc = "rg" =>
                  /\ out[Len(out)].file = i /\ out[Len(out)].line = "Cg"
                  /\ gravityCenter = calCenterOfGravity(atomCounter, fileAtoms))
    /\ [][(pc \in {"cg", "rg", "dmax"})
             => (fileAtoms' = fileAtoms /\ atomCounter' = atomCounter)]_vars

\* calRotationRadious is about to run on the two atoms of the second file
C9_Witness ==
    /\ pc = "rg"
    /\ i = 2
    /\ atomCounter = 2
    /\ gravityCenter.d = 2

\* the chunks fgets cuts a physical line into
RECURSIVE Chunks(_)
Chunks(s) == IF s = <<>> THEN <<>> ELSE <<Fgets(s)>> \o Chunks(Unread(s))

\* the atoms a file holds, read on its own: the fields of every chunk that
\* the read loop hands to parseLine
RECURSIVE AtomsOf(_)
AtomsOf(chunks) ==
    IF chunks = <<>> THEN <<>>
    ELSE IF startsWith(Head(chunks)) /\ LongEnough(Head(chunks))
    THEN <<[c \in 1..COORDINATES |->
               getFloat(memcpy(Head(chunks), 30 + (c - 1) * COORDINATE_LEN,
                               COORDINATE_LEN))]>>
             \o AtomsOf(Tail(chunks))
    ELSE AtomsOf(Tail(chunks))

RECURSIVE AllChunks(_)
AllChunks(lines) ==
    IF lines = <<>> THEN <<>> ELSE Chunks(Head(lines)) \o AllChunks(Tail(lines))

\* the store of a run that has this file as its only argument
AloneStore(lines) ==
    LET atoms == AtomsOf(AllChunks(lines))
    IN  [k \in {j \in 0..(Len(atoms) - 1) : atoms[j + 1] # ZeroAtom} |-> atoms[k + 1]]

AloneCount(lines) == Len(AtomsOf(AllChunks(lines)))

\* C10: the four result lines of a file are those of a run with this file as
\* its only argument, whatever the files before it left in fileAtoms.
C10_NoStateAcrossFiles ==
    FileDone =>
        LET n == AloneCount(fileHist)
            fa == AloneStore(fileHist)
        IN  /\ ResultOf(i - 1, "atoms") = <<n>>
            /\ ResultOf(i - 1, "Cg") = PrintCg(calCenterOfGravity(n, fa))
            /\ ResultOf(i - 1, "Rg")
                  = <<calRotationRadious(n, fa, calCenterOfGravity(n, fa))>>
            /\ ResultOf(i - 1, "Dmax") = <<calMaxDistance(n, fa)>>

\* the second file has one atom, the first one left two in the buffer
C10_Witness ==
    /\ FileDone
    /\ i = 3
    /\ ResultOf(1, "atoms") = <<2>>
    /\ ResultOf(2, "atoms") = <<1>>
    /\ 1 \in DOMAIN fileAtoms

====
